---- MODULE Spec2Model ----
(***************************************************************************)
(* A model of UiAutomatorController (src/UiAutomatorController/            *)
(* ui_automator.py): the per-screen element-location cache with its        *)
(* durable units, and the toast monitor with its background listener.      *)
(*                                                                         *)
(* Strings are sequences of symbols.  A symbol is one character, except    *)
(* ".json" and "temp_", which stand for those exact substrings (neither    *)
(* overlaps itself, and no other symbol of the model is one of their       *)
(* characters but "t", which only matters directly before a digit).        *)
(* None and the empty string are both << >>: the code only ever tests      *)
(* them for truthiness.                                                    *)
(***************************************************************************)
EXTENDS Integers, Sequences, FiniteSets, TLC

VARIABLES
    ops,               \* how many calls the main flow has made (bounded by MaxOps)
    device,            \* self.device
    use_cache,         \* self.use_cache
    activity_cache,    \* self.activity_cache : screen -> (key -> centre)
    current_activity,  \* self.current_activity
    files,             \* the content of cache_dir : file name -> content
    foreground,        \* device side: the component token dumpsys shows
    tree,              \* device side: the nodes uiautomator dump would write
    last,              \* what the most recent call of the main flow did
    resolved,          \* (screen, key) -> centre returned by find_element so far
    saved,             \* the most recent unit written by _save_activity_cache
    is_monitoring_toast,   \* self.is_monitoring_toast
    toast_monitor_thread,  \* self.toast_monitor_thread: a thread number, 0 for None
    toast_queue,           \* self.toast_queue
    toast_listeners,       \* self.toast_listeners
    pcMain,            \* where the main flow is inside start/stop
    lastMain,          \* what the most recent start/stop call of the main flow did
    lpc,               \* per listener thread: where it is in _monitor_toast
    lconn,             \* per listener thread: its events process ("none", "open", "eof")
    lbuf,              \* per listener thread: the lines its process has written, unread
    lgen,              \* per listener thread: how many processes it has opened
    lcur,              \* per listener thread: the toast text it is handing out
    lidx,              \* per listener thread: the position of its for loop in the list
    linvoked,          \* per listener thread: the callbacks called with lcur so far
    lchanged,          \* per listener thread: the list was changed since lcur was read
    lstayed,           \* per listener thread: the callbacks registered when its for
                       \* loop began and not removed since
    putLog,            \* every text put on the queue, with who read it, in order
    stops,             \* how many times the main flow has called stop
    emitted,           \* how many lines the device has produced by itself
    eofs,              \* how many events processes have ended by themselves
    now,               \* the clock, in ticks
    cpc,               \* where the main flow is inside get_toast, wait_for_toast
                       \* or get_all_toasts_in_time
    ccall,             \* that call: its arguments, its locals and its result
    arrived,           \* every text put on the queue, with the tick it was put at
    taken,             \* how many texts have been taken off the queue
    calls,             \* how many of those calls the main flow has made
    kcall,             \* a direct call of find_element's key function and its result
    readLog,           \* every line a listener thread has read, with who read it, in order
    lline              \* per listener thread: the line it has read and not yet looked at

cacheVars == <<ops, device, use_cache, activity_cache, current_activity, files,
               foreground, tree, last, resolved, saved>>

toastVars == <<is_monitoring_toast, toast_monitor_thread, toast_queue,
               toast_listeners, pcMain, lastMain, lpc, lconn, lbuf, lgen, lcur, lidx,
               linvoked, lchanged, lstayed, putLog, stops, emitted, eofs>>

consumerVars == <<now, cpc, ccall, arrived, taken, calls>>

streamVars == <<readLog, lline>>

otherVars == <<consumerVars, kcall, streamVars>>

vars == <<cacheVars, toastVars, otherVars>>

----------------------------------------------------------------------------
(* Strings *)

Absent == << >>

Spaces == {" "}
Digits == {"1"}
IllegalFileChars == {"\\", "/", ":", "*", "?", "<", ">", "|"}

RECURSIVE RunLen(_, _, _)
\* the number of consecutive symbols of class cls in s from position i on
RunLen(s, i, cls) ==
    IF i <= Len(s) /\ s[i] \in cls THEN 1 + RunLen(s, i + 1, cls) ELSE 0

\* the length of the match of  \s*/?\s*t\d+  at position i of s, 0 if none
TaskIdMatchLen(s, i) ==
    LET a == i + RunLen(s, i, Spaces)
        b == IF a <= Len(s) /\ s[a] = "/" THEN a + 1 ELSE a
        c == b + RunLen(s, b, Spaces)
        d == IF c <= Len(s) /\ s[c] = "t" THEN RunLen(s, c + 1, Digits) ELSE 0
    IN  IF d > 0 THEN (c + 1 + d) - i ELSE 0

RECURSIVE StripTaskId(_, _)
\* re.sub(r'\s*/?\s*t\d+', '', name), scanning from position i
StripTaskId(s, i) ==
    IF i > Len(s) THEN << >>
    ELSE LET n == TaskIdMatchLen(s, i)
         IN  IF n > 0 THEN StripTaskId(s, i + n)
                      ELSE <<s[i]>> \o StripTaskId(s, i + 1)

\* re.sub(r'[\\/:*?"<>|]', '_', name)
ReplaceIllegal(s) ==
    [i \in 1..Len(s) |-> IF s[i] \in IllegalFileChars THEN "_" ELSE s[i]]

SanitizeActivityName(name) == ReplaceIllegal(StripTaskId(name, 1))

\* _get_current_activity: the matched token, sanitized; "" when no line matches
GetCurrentActivity(fg) == IF fg = Absent THEN Absent ELSE SanitizeActivityName(fg)

----------------------------------------------------------------------------
(* Durable cache units *)

EndsWithJson(f) == Len(f) > 0 /\ f[Len(f)] = ".json"
StartsWithTemp(f) == Len(f) > 0 /\ f[1] = "temp_"

\* file.replace(".json", ""): every occurrence goes, not only the suffix
RemoveJson(f) == SelectSeq(f, LAMBDA c : c # ".json")

FirstUnderscore(s) ==
    IF \E i \in 1..Len(s) : s[i] = "_"
    THEN CHOOSE i \in 1..Len(s) : s[i] = "_" /\ \A j \in 1..(i - 1) : s[j] # "_"
    ELSE 0

\* s.split("_", 1)
SplitOnce(s) ==
    LET k == FirstUnderscore(s)
    IN  IF k = 0 THEN <<s>>
        ELSE <<SubSeq(s, 1, k - 1), SubSeq(s, k + 1, Len(s))>>

\* f"{self.device}_{activity_name}.json", activity_name re-sanitized
CacheFileName(dev, activity_name) ==
    dev \o <<"_">> \o SanitizeActivityName(activity_name) \o <<".json">>

\* the files _preload_activity_cache reads for dev, and the name each is kept under
Loadable(dev, fs) ==
    {f \in DOMAIN fs :
        /\ EndsWithJson(f) /\ ~StartsWithTemp(f)
        /\ Len(SplitOnce(RemoveJson(f))) = 2
        /\ SplitOnce(RemoveJson(f))[1] = dev
        /\ fs[f].ok}

LoadedName(f) == SplitOnce(RemoveJson(f))[2]

\* the directory read whatever use_cache says
PreloadActivityCacheAlways(dev, enabled, fs) ==
    LET names == {LoadedName(f) : f \in Loadable(dev, fs)}
    IN  {m \in [names -> {fs[f].data : f \in Loadable(dev, fs)}] :
            \A n \in names :
                \E f \in Loadable(dev, fs) : LoadedName(f) = n /\ m[n] = fs[f].data}

\* _preload_activity_cache: every map it can return; os.listdir fixes no order,
\* so of two units kept under one name either may be the one that stays
PreloadActivityCache(dev, enabled, fs) ==
    IF ~enabled THEN {<< >>}
    ELSE LET names == {LoadedName(f) : f \in Loadable(dev, fs)}
         IN  {m \in [names -> {fs[f].data : f \in Loadable(dev, fs)}] :
                 \A n \in names :
                     \E f \in Loadable(dev, fs) : LoadedName(f) = n /\ m[n] = fs[f].data}

----------------------------------------------------------------------------
(* Element location *)

\* the parts joined with the text before the id
GetElementKeyTextFirst(resource_id, text, class_name) ==
    LET p1 == IF resource_id # Absent THEN <<<<"id=">> \o resource_id>> ELSE << >>
        p2 == IF text # Absent THEN <<<<"text=">> \o text>> ELSE << >>
        p3 == IF class_name # Absent THEN <<<<"class=">> \o class_name>> ELSE << >>
        parts == p2 \o p1 \o p3
        Join[i \in 0..Len(parts)] ==
            IF i = 0 THEN << >>
            ELSE IF i = 1 THEN parts[1]
            ELSE Join[i - 1] \o <<"_">> \o parts[i]
    IN  Join[Len(parts)]

\* _get_element_key
GetElementKey(resource_id, text, class_name) ==
    LET p1 == IF resource_id # Absent THEN <<<<"id=">> \o resource_id>> ELSE << >>
        p2 == IF text # Absent THEN <<<<"text=">> \o text>> ELSE << >>
        p3 == IF class_name # Absent THEN <<<<"class=">> \o class_name>> ELSE << >>
        parts == p1 \o p2 \o p3
        Join[i \in 0..Len(parts)] ==
            IF i = 0 THEN << >>
            ELSE IF i = 1 THEN parts[1]
            ELSE Join[i - 1] \o <<"_">> \o parts[i]
    IN  Join[Len(parts)]

NumConditions(q) ==
    (IF q.rid # Absent THEN 1 ELSE 0) + (IF q.text # Absent THEN 1 ELSE 0)
        + (IF q.cls # Absent THEN 1 ELSE 0)

\* the conjunction of the supplied predicates, by exact equality
NodeMatches(n, q) ==
    /\ q.rid # Absent => n.rid = q.rid
    /\ q.text # Absent => n.text = q.text
    /\ q.cls # Absent => n.cls = q.cls

\* the first node in document order that matches, 0 when there is none
FirstMatch(t, q) ==
    IF \E i \in 1..Len(t) : NodeMatches(t[i], q)
    THEN CHOOSE i \in 1..Len(t) :
             NodeMatches(t[i], q) /\ \A j \in 1..(i - 1) : ~NodeMatches(t[j], q)
    ELSE 0

\* A bounding box is the list of its "][" separated parts, each the list of its
\* "," separated fields; a field is <<n>> when its text is the numeral n and
\* << >> when int() rejects it.  "[10,20][30,60]" is <<<<<<10>>, <<20>>>>,
\* <<<<30>>, <<60>>>>>>, and the default "[]" of a node without the attribute
\* is <<<<<< >>>>>>.
PairOk(p) == Len(p) = 2 /\ Len(p[1]) = 1 /\ Len(p[2]) = 1

\* lines 185-187: what parsing the bounds raises, "ok" when nothing
ParseBounds(b) ==
    IF ~PairOk(b[1]) THEN "ValueError"
    ELSE IF Len(b) < 2 THEN "IndexError"
    ELSE IF ~PairOk(b[2]) THEN "ValueError"
    ELSE "ok"

\* the midpoint rounded up
CenterRoundUp(b) ==
    <<(b[1][1][1] + b[2][1][1] + 1) \div 2, (b[1][2][1] + b[2][2][1] + 1) \div 2>>

\* line 190
Center(b) == <<(b[1][1][1] + b[2][1][1]) \div 2, (b[1][2][1] + b[2][2][1]) \div 2>>

NoCenter == << >>

NoBounds == << >>

\* root.find(xpath): ElementTree's predicate parser knows no "and", so a path
\* built from two or three conditions is rejected with SyntaxError before any
\* node is looked at; otherwise the index of the first match, 0 for None
XPathFind(t, q) ==
    IF NumConditions(q) >= 2 THEN [error |-> TRUE, node |-> 0]
    ELSE [error |-> FALSE, node |-> FirstMatch(t, q)]

\* _save_activity_cache: the files afterwards (open() failing leaves them alone).
\* A file is whether json.load accepts it and the map it holds; by and of, which
\* are no part of the file, keep the device and the screen it was written for.
SaveActivityCache(dev, enabled, fs, activity_name, cache_data, writeOk) ==
    IF ~enabled \/ ~writeOk THEN fs
    ELSE (CacheFileName(dev, activity_name) :>
              [ok |-> TRUE, data |-> cache_data, by |-> dev, of |-> activity_name]) @@ fs

\* a cache that answers only while some node of the tree has the stored centre
CacheLookupRevalidated(cache, activity, key) ==
    IF /\ activity # Absent /\ key \in DOMAIN cache[activity]
       /\ \E i \in 1..Len(tree) :
              /\ ParseBounds(tree[i].bounds) = "ok"
              /\ Center(tree[i].bounds) = cache[activity][key]
    THEN cache[activity][key]
    ELSE NoCenter

\* a flat cache, keyed by the query alone
CacheLookupAnyScreen(cache, activity, key) ==
    IF activity # Absent /\ \E a \in DOMAIN cache : key \in DOMAIN cache[a]
    THEN cache[CHOOSE a \in DOMAIN cache : key \in DOMAIN cache[a]][key]
    ELSE NoCenter

\* the key looked up in the map of screens instead of the screen's own map
CacheLookupWrongMap(cache, activity, key) ==
    IF activity # Absent /\ key \in DOMAIN cache THEN cache[key] ELSE NoCenter

\* lines 157-160: the centre the cache answers with, NoCenter on a miss
CacheLookup(cache, activity, key) ==
    IF activity # Absent /\ key \in DOMAIN cache[activity]
    THEN cache[activity][key]
    ELSE NoCenter

\* the tree fetched before the cache is asked
SnapshotsTakenEager(hit) == 1

\* lines 157-163: how often _get_ui_hierarchy is called; a hit returns before it
SnapshotsTaken(hit) == IF hit THEN 0 ELSE 1

\* lines 59 and 145: the adb commands run to resolve the screen
ResolveCommands(enabled) == IF enabled THEN 1 ELSE 0

\* the cache used whatever the resolver returned
CacheUsableAlways(enabled, activity) == enabled

\* lines 151, 158 and 193: whether the call works with the cache
CacheUsable(enabled, activity) == enabled /\ activity # Absent

\* lines 144-160: what find_element knows once it has asked the cache
CachePhase(q) ==
    LET activity == IF use_cache THEN GetCurrentActivity(foreground) ELSE Absent
        usable == CacheUsable(use_cache, activity)
        cache1 == IF usable /\ activity \notin DOMAIN activity_cache
                  THEN (activity :> << >>) @@ activity_cache
                  ELSE activity_cache
        key == GetElementKey(q.rid, q.text, q.cls)
        cached == IF usable THEN CacheLookup(cache1, activity, key) ELSE NoCenter
    IN  [activity |-> activity, usable |-> usable, cache |-> cache1, key |-> key,
         cached |-> cached, hit |-> cached # NoCenter,
         cur |-> IF use_cache /\ foreground # Absent THEN activity
                 ELSE current_activity]

\* lines 163-198: the search of the tree and what follows it, for a call that
\* knows c from the cache and whose root.find gave found
SearchPhase(q, fault, c, found) ==
    LET want == FirstMatch(tree, q)
        base == [outcome |-> "return", center |-> NoCenter, cache |-> c.cache,
                 cur |-> Absent, fs |-> files, snapshots |-> SnapshotsTaken(c.hit),
                 deviceCmds |-> ResolveCommands(use_cache) + SnapshotsTaken(c.hit),
                 hit |-> c.hit, activity |-> c.activity, key |-> c.key,
                 notfound |-> FALSE, node |-> 0, wrote |-> FALSE,
                 searched |-> ~c.hit /\ fault # "dump",
                 fault |-> IF c.hit THEN "none" ELSE fault,
                 bounds |-> NoBounds,
                 want |-> IF want = 0 THEN NoBounds ELSE tree[want].bounds]
        Result(b) ==
            IF c.hit
            THEN [b EXCEPT !.center = c.cached,
                           !.cur = IF b.snapshots = 0 THEN c.cur ELSE Absent]
            ELSE IF fault = "dump" THEN [b EXCEPT !.outcome = "SnapshotError"]
            ELSE IF found.error THEN [b EXCEPT !.outcome = "SyntaxError"]
            ELSE IF found.node = 0
            THEN [b EXCEPT !.outcome = "ValueError", !.notfound = TRUE]
            ELSE IF ParseBounds(tree[found.node].bounds) # "ok"
            THEN [b EXCEPT !.outcome = ParseBounds(tree[found.node].bounds),
                           !.node = found.node, !.bounds = tree[found.node].bounds]
            ELSE LET center == Center(tree[found.node].bounds)
                     entries == IF c.activity \in DOMAIN c.cache
                                THEN c.cache[c.activity] ELSE << >>
                     cache2 == (c.activity :> ((c.key :> center) @@ entries)) @@ c.cache
                 IN  IF ~c.usable
                     THEN [b EXCEPT !.center = center, !.node = found.node,
                                    !.bounds = tree[found.node].bounds]
                     ELSE IF fault = "write"
                     THEN [b EXCEPT !.outcome = "OSError", !.cache = cache2,
                                    !.node = found.node,
                                    !.bounds = tree[found.node].bounds]
                     ELSE [b EXCEPT !.center = center, !.cache = cache2,
                                    !.node = found.node,
                                    !.bounds = tree[found.node].bounds,
                                    !.wrote = TRUE,
                                    !.fs = SaveActivityCache(device, use_cache, files,
                                               c.activity, cache2[c.activity], TRUE)]
    IN  Result(base)

\* find_element: everything one call does, as a record.  fault is what goes
\* wrong outside the controller during the call: "dump" (the device dump, pull
\* or parse fails), "write" (the cache unit cannot be opened) or "none".
FindElement(q, fault) ==
    CHOOSE r \in {SearchPhase(q, fault, c, found) :
                     c \in {CachePhase(q)}, found \in {XPathFind(tree, q)}} : TRUE

\* check_element_exists: "True", "False", or "raise" when the error is no ValueError
CheckElementExists(r) ==
    IF r.outcome = "return" THEN "True"
    ELSE IF r.outcome = "ValueError" THEN "False"
    ELSE "raise"

----------------------------------------------------------------------------
(* The inputs of the model *)

MaxOps == 3

Devices == {<<"d">>, <<"d", "_", "e">>}

\* what dumpsys shows in front: nothing that matches, p/A with its task id,
\* and a component whose package name holds ".json"
RawScreens == {Absent, <<"p", "/", "A", " ", "t", "1">>, <<"p", ".json", "/", "A">>}

Box(x1, y1, x2, y2) == <<<<<<x1>>, <<y1>>>>, <<<<x2>>, <<y2>>>>>>

NodeA == [rid |-> <<"r">>, text |-> <<"x">>, cls |-> <<"c">>, bounds |-> Box(10, 20, 30, 60)]
NodeB == [rid |-> <<"r">>, text |-> <<"y">>, cls |-> <<"c">>, bounds |-> Box(0, 0, 1, 1)]
\* a node without bounds attribute: line 183 takes "[]"
NodeNoBounds == [rid |-> <<"s">>, text |-> <<"x">>, cls |-> <<"c">>, bounds |-> <<<<<< >>>>>>]
\* a node whose bounds hold one corner only: "[1,2]"
NodeOneCorner == [rid |-> <<"r">>, text |-> <<"z">>, cls |-> <<"c">>, bounds |-> <<<<<<1>>, <<2>>>>>>]

Trees == {<<NodeA, NodeB>>, <<NodeB>>, <<NodeNoBounds, NodeOneCorner>>}

Queries == {[rid |-> r, text |-> t, cls |-> Absent] :
               r \in {Absent, <<"r">>}, t \in {Absent, <<"x">>}} \ 
           {[rid |-> Absent, text |-> Absent, cls |-> Absent]}

Faults == {"none", "dump", "write"}

NoQuery == [rid |-> Absent, text |-> Absent, cls |-> Absent]

NoSave == [valid |-> FALSE, dev |-> Absent, screen |-> Absent, data |-> << >>]

NoCall == [op |-> "new", q |-> NoQuery, outcome |-> "return", value |-> "-",
           center |-> NoCenter, hit |-> FALSE, snapshots |-> 0, deviceCmds |-> 0,
           activity |-> Absent, key |-> Absent, notfound |-> FALSE, node |-> 0,
           wrote |-> FALSE, fault |-> "none", bounds |-> NoBounds,
           want |-> NoBounds, prior |-> NoCenter, stored |-> FALSE,
           elsewhere |-> FALSE, nomatch |-> FALSE, cacheSame |-> TRUE,
           filesSame |-> TRUE]

\* the record of a find_element call r for query q, made as op
CallRecord(op, q, r) ==
    [op |-> op, q |-> q, outcome |-> r.outcome,
     value |-> IF op = "exists" THEN CheckElementExists(r) ELSE "-",
     center |-> IF r.outcome = "return" THEN r.center ELSE NoCenter,
     hit |-> r.hit, snapshots |-> r.snapshots, deviceCmds |-> r.deviceCmds,
     activity |-> r.activity, key |-> r.key, notfound |-> r.notfound,
     node |-> r.node, wrote |-> r.wrote, fault |-> r.fault, bounds |-> r.bounds,
     want |-> r.want,
     prior |-> IF <<r.activity, r.key>> \in DOMAIN resolved
               THEN resolved[<<r.activity, r.key>>] ELSE NoCenter,
     stored |-> /\ r.activity \in DOMAIN activity_cache
                /\ r.key \in DOMAIN activity_cache[r.activity],
     elsewhere |-> \E a \in DOMAIN activity_cache :
                       a # r.activity /\ r.key \in DOMAIN activity_cache[a],
     nomatch |-> r.searched /\ \A i \in 1..Len(tree) : ~NodeMatches(tree[i], q),
     cacheSame |-> r.cache = activity_cache,
     filesSame |-> r.fs = files]

----------------------------------------------------------------------------
(* The toast monitor: lines, callbacks and the fresh state *)

MaxThreads == 2
MaxLines == 2
MaxEof == 1
MaxStops == 1

Threads == 1..MaxThreads

NoText == << >>

\* An event line: whether it holds "TYPE_NOTIFICATION_STATE_CHANGED", whether it
\* holds "ClassName: android.widget.Toast", and the rest of it as symbols, where
\* "Text: [" and "];" stand for those exact substrings.
ToastLine == [notif |-> TRUE, toastcls |-> TRUE, body |-> <<"Text: [", "a", "];">>]
BlankToastLine == [notif |-> TRUE, toastcls |-> TRUE, body |-> <<"Text: [", " ", "];">>]
KeyLine == [notif |-> FALSE, toastcls |-> FALSE, body |-> <<"Text: [", "k", "];">>]

DeviceLines == {ToastLine, BlankToastLine, KeyLine}

\* the callbacks a test registers: "good" returns, "bad" raises on every call
Callbacks == {"good", "bad"}
CallbackOutcome(cb) == IF cb = "bad" THEN "raise" ELSE "ok"

\* s.find(sym, from): the first position >= from holding sym, 0 for -1
FindFrom(s, sym, from) ==
    IF \E i \in from..Len(s) : s[i] = sym
    THEN CHOOSE i \in from..Len(s) : s[i] = sym /\ \A j \in from..(i - 1) : s[j] # sym
    ELSE 0

RECURSIVE Strip(_)
\* str.strip()
Strip(s) ==
    IF s = << >> THEN s
    ELSE IF Head(s) \in Spaces THEN Strip(Tail(s))
    ELSE IF s[Len(s)] \in Spaces THEN Strip(SubSeq(s, 1, Len(s) - 1))
    ELSE s

\* _parse_toast_text: the text between "Text: [" and the next "];", stripped;
\* NoText for None
ParseToastText(body) ==
    LET start == FindFrom(body, "Text: [", 1)
        end == IF start = 0 THEN 0 ELSE FindFrom(body, "];", start + 1)
    IN  IF start = 0 \/ end = 0 THEN NoText
        ELSE Strip(SubSeq(body, start + 1, end - 1))

\* line 396
IsToastEvent(line) == line.notif /\ line.toastcls

\* line 375: whether the loop goes round once more
LoopContinuesAlways(flag) == TRUE

LoopContinuesNever(flag) == FALSE

LoopContinues(flag) == flag

\* lines 402-405 without the try: the callback's exception leaves the loop
AfterCallbackUncaught(outcome) == IF outcome = "raise" THEN "except" ELSE "dispatch"

\* lines 402-405: where the thread is after a callback returned or raised
AfterCallback(outcome) == "dispatch"

\* the empty read ends the loop instead of reopening the stream
AfterReopenBreak == "exit"

\* line 393: where the thread is after it reopened the stream
AfterReopen == "check"

Alive(t) == lpc[t] \notin {"unborn", "dead"}

\* the callbacks that are in self.toast_listeners
Registered == {toast_listeners[i] : i \in 1..Len(toast_listeners)}

NoMainCall == [op |-> "new", sawAlive |-> FALSE, thread |-> 0, how |-> "returned"]

\* __init__, lines 46-49, and no listener thread yet
ToastNew ==
    /\ is_monitoring_toast = FALSE
    /\ toast_monitor_thread = 0
    /\ toast_queue = << >>
    /\ toast_listeners = << >>
    /\ pcMain = "idle"
    /\ lastMain = NoMainCall
    /\ lpc = [t \in Threads |-> "unborn"]
    /\ lconn = [t \in Threads |-> "none"]
    /\ lbuf = [t \in Threads |-> << >>]
    /\ lgen = [t \in Threads |-> 0]
    /\ lcur = [t \in Threads |-> NoText]
    /\ lidx = [t \in Threads |-> 0]
    /\ linvoked = [t \in Threads |-> << >>]
    /\ lchanged = [t \in Threads |-> FALSE]
    /\ lstayed = [t \in Threads |-> {}]
    /\ putLog = << >>
    /\ stops = 0
    /\ emitted = 0
    /\ eofs = 0

NoToastCall == [op |-> "new", timeout |-> 0, expected |-> NoText, start |-> 0,
                deadline |-> 0, outcome |-> "return", text |-> NoText,
                flag |-> FALSE, all_toasts |-> << >>, queued |-> 0, from |-> 0,
                seen |-> 0, ended |-> 0, matched |-> 0, took |-> 0]

\* no call of the toast readers yet, the clock at 0
ConsumerNew ==
    /\ now = 0
    /\ cpc = "idle"
    /\ ccall = NoToastCall
    /\ arrived = << >>
    /\ taken = 0
    /\ calls = 0

NoKeyCall == [args |-> << >>, key |-> Absent, done |-> FALSE, again |-> << >>,
              keyAgain |-> Absent, doneAgain |-> FALSE, other |-> << >>,
              keyOther |-> Absent, doneOther |-> FALSE]

KeyNew == kcall = NoKeyCall

NoLine == [notif |-> FALSE, toastcls |-> FALSE, body |-> << >>]

\* no line read yet
StreamNew ==
    /\ readLog = << >>
    /\ lline = [t \in Threads |-> NoLine]

----------------------------------------------------------------------------
(* The controller and its device *)

\* Files that are in cache_dir without being a unit of any device: a unit of
\* device d whose write was cut short, a json file whose name holds no "_", and
\* a temp_ file of json
StrayFiles ==
    LET stray(ok) == [ok |-> ok, data |-> << >>, by |-> Absent, of |-> Absent]
    IN  (<<"d", "_", "p", "_", "A", ".json">> :> stray(FALSE))
            @@ (<<"n", ".json">> :> stray(TRUE))
            @@ (<<"temp_", "d", "_", "u", ".json">> :> stray(TRUE))

\* __init__, lines 26-38, on an empty cache directory
Init ==
    /\ ops = 0
    /\ device \in Devices
    /\ use_cache \in BOOLEAN
    /\ files = << >>
    /\ activity_cache = << >>
    /\ current_activity = Absent
    /\ foreground = <<"p", "/", "A", " ", "t", "1">>
    /\ tree = <<NodeA, NodeB>>
    /\ last = NoCall
    /\ resolved = << >>
    /\ saved = NoSave
    /\ ToastNew
    /\ ConsumerNew
    /\ KeyNew
    /\ StreamNew

\* what a find_element call r leaves behind, whoever made it
Apply(op, q, r) ==
    /\ ops' = ops + 1
    /\ activity_cache' = r.cache
    /\ current_activity' = r.cur
    /\ files' = r.fs
    /\ last' = CallRecord(op, q, r)
    /\ resolved' = IF r.outcome = "return" /\ use_cache /\ r.activity # Absent
                   THEN (<<r.activity, r.key>> :> r.center) @@ resolved
                   ELSE resolved
    /\ saved' = IF r.wrote
                THEN [valid |-> TRUE, dev |-> device, screen |-> r.activity,
                      data |-> r.cache[r.activity]]
                ELSE saved
    /\ UNCHANGED <<device, use_cache, foreground, tree>>
    /\ UNCHANGED <<toastVars, otherVars>>

\* the main flow calls find_element (directly, or through click_element)
Locate ==
    /\ ops < MaxOps
    /\ \E q \in Queries, fault \in Faults :
           \E r \in {FindElement(q, fault)} : Apply("find", q, r)

\* the main flow calls check_element_exists
Exists ==
    /\ ops < MaxOps
    /\ \E q \in Queries, fault \in Faults :
           \E r \in {FindElement(q, fault)} : Apply("exists", q, r)

\* __init__ for the device dev with use_cache enabled, over the cache directory
\* as it is
Construct(dev, enabled) ==
    /\ ops < MaxOps
    /\ device' = dev
    /\ use_cache' = enabled
    /\ activity_cache' \in PreloadActivityCache(dev, enabled, files)
    /\ ops' = ops + 1
    /\ current_activity' = Absent
    /\ last' = [NoCall EXCEPT !.op = "restart"]
    /\ resolved' = << >>
    /\ UNCHANGED <<files, foreground, tree, saved>>
    /\ UNCHANGED <<toastVars, otherVars>>

\* a new controller is constructed over the same cache directory, for the device
\* of some device_index, with use_cache as before
Restart == \E dev \in Devices : Construct(dev, use_cache)

\* a new controller is constructed over the same cache directory, for the device
\* of some device_index, with use_cache on or off
Reconfigure == \E dev \in Devices, enabled \in BOOLEAN : Construct(dev, enabled)

\* the device shows another screen or another element tree
ScreenChange ==
    /\ ops < MaxOps
    /\ \E fg \in RawScreens, t \in Trees :
           /\ <<fg, t>> # <<foreground, tree>>
           /\ foreground' = fg
           /\ tree' = t
    /\ UNCHANGED <<ops, device, use_cache, activity_cache, current_activity, files,
                   last, resolved, saved>>
    /\ UNCHANGED <<toastVars, otherVars>>

Next == Locate \/ Exists \/ Restart \/ ScreenChange

Spec == Init /\ [][Next]_vars

\* __init__, lines 26-38, on a cache directory that holds no unit, empty or with
\* stray files
DirInit ==
    /\ ops = 0
    /\ device \in Devices
    /\ use_cache \in BOOLEAN
    /\ files \in {<< >>, StrayFiles}
    /\ activity_cache \in PreloadActivityCache(device, use_cache, files)
    /\ current_activity = Absent
    /\ foreground = <<"p", "/", "A", " ", "t", "1">>
    /\ tree = <<NodeA, NodeB>>
    /\ last = NoCall
    /\ resolved = << >>
    /\ saved = NoSave
    /\ ToastNew
    /\ ConsumerNew
    /\ KeyNew
    /\ StreamNew

\* controllers that come and go over one cache directory, caching on or off
DirNext == Locate \/ Reconfigure \/ ScreenChange

DirSpec == DirInit /\ [][DirNext]_vars

----------------------------------------------------------------------------
(* The toast monitor: the main flow *)

\* start_toast_monitor, lines 337-341: the test of the flag and its setting
StartFlag ==
    /\ pcMain = "idle"
    /\ \E t \in Threads : lpc[t] = "unborn"
    /\ IF is_monitoring_toast
       THEN /\ lastMain' = [op |-> "start", sawAlive |-> FALSE, thread |-> 0,
                            how |-> "noop"]
            /\ UNCHANGED <<is_monitoring_toast, pcMain>>
       ELSE /\ is_monitoring_toast' = TRUE
            /\ pcMain' = "start_spawn"
            /\ lastMain' = [op |-> "start", sawAlive |-> FALSE, thread |-> 0,
                            how |-> "running"]
    /\ UNCHANGED <<toast_monitor_thread, toast_queue, toast_listeners, lpc, lconn, lbuf,
                   lgen, lcur, lidx, linvoked, lchanged, lstayed, putLog, stops, emitted, eofs>>
    /\ UNCHANGED <<cacheVars, otherVars>>

\* start_toast_monitor, lines 342-344: the thread is created and started
StartSpawn ==
    /\ pcMain = "start_spawn"
    /\ LET t == CHOOSE u \in Threads :
                    lpc[u] = "unborn" /\ \A v \in Threads : lpc[v] = "unborn" => u <= v
       IN  /\ toast_monitor_thread' = t
           /\ lpc' = [lpc EXCEPT ![t] = "open"]
           /\ lastMain' = [lastMain EXCEPT !.thread = t, !.how = "returned"]
    /\ pcMain' = "idle"
    /\ UNCHANGED <<is_monitoring_toast, toast_queue, toast_listeners, lconn, lbuf, lgen,
                   lcur, lidx, linvoked, lchanged, lstayed, putLog, stops, emitted, eofs>>
    /\ UNCHANGED <<cacheVars, otherVars>>

\* stop_toast_monitor, lines 348-349: the flag is cleared and the thread looked at
StopFlag ==
    /\ pcMain = "idle"
    /\ stops < MaxStops
    /\ stops' = stops + 1
    /\ is_monitoring_toast' = FALSE
    /\ LET alive == toast_monitor_thread # 0 /\ Alive(toast_monitor_thread)
       IN  /\ pcMain' = IF alive THEN "stop_nudge1" ELSE "idle"
           /\ lastMain' = [op |-> "stop", sawAlive |-> alive,
                           thread |-> toast_monitor_thread,
                           how |-> IF alive THEN "running" ELSE "returned"]
    /\ UNCHANGED <<toast_monitor_thread, toast_queue, toast_listeners, lpc, lconn, lbuf,
                   lgen, lcur, lidx, linvoked, lchanged, lstayed, putLog, emitted, eofs>>
    /\ UNCHANGED <<cacheVars, otherVars>>

\* what a key event that reached the device does to the events processes: each
\* open one writes a line
Nudged(bufs) ==
    [t \in Threads |-> IF lconn[t] = "open" THEN Append(bufs[t], KeyLine) ELSE bufs[t]]

\* stop_toast_monitor, lines 352 and 354: subprocess.run(..., check=True) of a key
\* event; ok is whether adb exits with 0
StopNudge(from, to) ==
    /\ pcMain = from
    /\ \E ok \in BOOLEAN :
           IF ok
           THEN /\ lbuf' = Nudged(lbuf)
                /\ pcMain' = to
                /\ UNCHANGED lastMain
           ELSE /\ pcMain' = "idle"
                /\ lastMain' = [lastMain EXCEPT !.how = "raised"]
                /\ UNCHANGED lbuf
    /\ UNCHANGED <<is_monitoring_toast, toast_monitor_thread, toast_queue,
                   toast_listeners, lpc, lconn, lgen, lcur, lidx, linvoked, lchanged, lstayed,
                   putLog, stops, emitted, eofs>>
    /\ UNCHANGED <<cacheVars, otherVars>>

StopNudgeUp == StopNudge("stop_nudge1", "stop_nudge2")

StopNudgeDown == StopNudge("stop_nudge2", "stop_join")

\* stop_toast_monitor, lines 356-357: join returns once the thread has ended
StopJoin ==
    /\ pcMain = "stop_join"
    /\ ~Alive(toast_monitor_thread)
    /\ pcMain' = "idle"
    /\ lastMain' = [lastMain EXCEPT !.how = "returned"]
    /\ UNCHANGED <<is_monitoring_toast, toast_monitor_thread, toast_queue,
                   toast_listeners, lpc, lconn, lbuf, lgen, lcur, lidx, linvoked,
                   lchanged, lstayed, putLog, stops, emitted, eofs>>
    /\ UNCHANGED <<cacheVars, otherVars>>

\* add_toast_listener, for a callback that is not registered yet
AddToastListener ==
    /\ pcMain = "idle"
    /\ \E cb \in Callbacks :
           /\ FindFrom(toast_listeners, cb, 1) = 0
           /\ toast_listeners' = Append(toast_listeners, cb)
    /\ lchanged' = [t \in Threads |-> lpc[t] = "dispatch"]
    /\ UNCHANGED lstayed
    /\ UNCHANGED <<is_monitoring_toast, toast_monitor_thread, toast_queue, pcMain,
                   lastMain, lpc, lconn, lbuf, lgen, lcur, lidx, linvoked, putLog, stops, emitted, eofs>>
    /\ UNCHANGED <<cacheVars, otherVars>>

\* list.remove(x): the first occurrence goes
RemoveFirst(s, x) ==
    LET k == FindFrom(s, x, 1)
    IN  SubSeq(s, 1, k - 1) \o SubSeq(s, k + 1, Len(s))

\* remove_toast_listener
RemoveToastListener ==
    /\ pcMain = "idle"
    /\ \E cb \in Callbacks :
           /\ FindFrom(toast_listeners, cb, 1) # 0
           /\ toast_listeners' = RemoveFirst(toast_listeners, cb)
           /\ lstayed' = [t \in Threads |-> lstayed[t] \ {cb}]
    /\ lchanged' = [t \in Threads |-> lpc[t] = "dispatch"]
    /\ UNCHANGED <<is_monitoring_toast, toast_monitor_thread, toast_queue, pcMain,
                   lastMain, lpc, lconn, lbuf, lgen, lcur, lidx, linvoked, putLog, stops, emitted, eofs>>
    /\ UNCHANGED <<cacheVars, otherVars>>

----------------------------------------------------------------------------
(* The toast monitor: a listener thread, _monitor_toast *)

\* lines 363-373: the events process is started
ListenerOpen(t) ==
    /\ lpc[t] = "open"
    /\ lconn' = [lconn EXCEPT ![t] = "open"]
    /\ lbuf' = [lbuf EXCEPT ![t] = << >>]
    /\ lgen' = [lgen EXCEPT ![t] = @ + 1]
    /\ lpc' = [lpc EXCEPT ![t] = "check"]
    /\ UNCHANGED <<is_monitoring_toast, toast_monitor_thread, toast_queue,
                   toast_listeners, pcMain, lastMain, lcur, lidx, linvoked, lchanged, lstayed,
                   putLog, stops, emitted, eofs>>
    /\ UNCHANGED <<cacheVars, otherVars>>

\* line 375: the loop test
ListenerCheck(t) ==
    /\ lpc[t] = "check"
    /\ lpc' = [lpc EXCEPT ![t] = IF LoopContinues(is_monitoring_toast)
                                 THEN "read" ELSE "exit"]
    /\ UNCHANGED <<is_monitoring_toast, toast_monitor_thread, toast_queue,
                   toast_listeners, pcMain, lastMain, lconn, lbuf, lgen, lcur, lidx,
                   linvoked, lchanged, lstayed, putLog, stops, emitted, eofs>>
    /\ UNCHANGED <<cacheVars, otherVars>>

\* lines 378 and 395-400: readline returns a line; a toast event with a text is
\* put on the queue and the for loop over the callbacks begins
ListenerRead(t) ==
    /\ lpc[t] = "read"
    /\ lbuf[t] # << >>
    /\ LET line == Head(lbuf[t])
           text == IF IsToastEvent(line) THEN ParseToastText(line.body) ELSE NoText
       IN  /\ lbuf' = [lbuf EXCEPT ![t] = Tail(@)]
           /\ IF text # NoText
              THEN /\ toast_queue' = Append(toast_queue, text)
                   /\ putLog' = Append(putLog, [text |-> text, thread |-> t,
                                                 gen |-> lgen[t]])
                   /\ lcur' = [lcur EXCEPT ![t] = text]
                   /\ lidx' = [lidx EXCEPT ![t] = 1]
                   /\ linvoked' = [linvoked EXCEPT ![t] = << >>]
                   /\ lchanged' = [lchanged EXCEPT ![t] = FALSE]
                   /\ lstayed' = [lstayed EXCEPT ![t] = Registered]
                   /\ lpc' = [lpc EXCEPT ![t] = "dispatch"]
              ELSE /\ lpc' = [lpc EXCEPT ![t] = "check"]
                   /\ UNCHANGED <<toast_queue, putLog, lcur, lidx, linvoked, lchanged, lstayed>>
    /\ UNCHANGED <<is_monitoring_toast, toast_monitor_thread, toast_listeners, pcMain,
                   lastMain, lconn, lgen, stops, emitted, eofs>>
    /\ UNCHANGED <<cacheVars, otherVars>>

\* lines 378-382: readline returns "" at the end of the stream; the process is
\* terminated
ListenerEmptyRead(t) ==
    /\ lpc[t] = "read"
    /\ lbuf[t] = << >>
    /\ lconn[t] = "eof"
    /\ lconn' = [lconn EXCEPT ![t] = "none"]
    /\ lpc' = [lpc EXCEPT ![t] = "reopen"]
    /\ UNCHANGED <<is_monitoring_toast, toast_monitor_thread, toast_queue,
                   toast_listeners, pcMain, lastMain, lbuf, lgen, lcur, lidx, linvoked,
                   lchanged, lstayed, putLog, stops, emitted, eofs>>
    /\ UNCHANGED <<cacheVars, otherVars>>

\* lines 383-393: after the pause a new events process is started, and continue
ListenerReopen(t) ==
    /\ lpc[t] = "reopen"
    /\ lconn' = [lconn EXCEPT ![t] = "open"]
    /\ lbuf' = [lbuf EXCEPT ![t] = << >>]
    /\ lgen' = [lgen EXCEPT ![t] = @ + 1]
    /\ lpc' = [lpc EXCEPT ![t] = AfterReopen]
    /\ UNCHANGED <<is_monitoring_toast, toast_monitor_thread, toast_queue,
                   toast_listeners, pcMain, lastMain, lcur, lidx, linvoked, lchanged, lstayed,
                   putLog, stops, emitted, eofs>>
    /\ UNCHANGED <<cacheVars, otherVars>>

\* lines 401-405: one round of the for loop, which ends when the position has
\* passed the end of the list as it is now
ListenerDispatch(t) ==
    /\ lpc[t] = "dispatch"
    /\ IF lidx[t] <= Len(toast_listeners)
       THEN /\ linvoked' = [linvoked EXCEPT ![t] = Append(@, toast_listeners[lidx[t]])]
            /\ lidx' = [lidx EXCEPT ![t] = @ + 1]
            /\ lpc' = [lpc EXCEPT ![t] =
                          AfterCallback(CallbackOutcome(toast_listeners[lidx[t]]))]
            /\ UNCHANGED <<lcur, lchanged, lstayed>>
       ELSE /\ lpc' = [lpc EXCEPT ![t] = "check"]
            /\ lcur' = [lcur EXCEPT ![t] = NoText]
            /\ lidx' = [lidx EXCEPT ![t] = 0]
            /\ linvoked' = [linvoked EXCEPT ![t] = << >>]
            /\ lchanged' = [lchanged EXCEPT ![t] = FALSE]
            /\ lstayed' = [lstayed EXCEPT ![t] = {}]
    /\ UNCHANGED <<is_monitoring_toast, toast_monitor_thread, toast_queue,
                   toast_listeners, pcMain, lastMain, lconn, lbuf, lgen,
                   putLog, stops, emitted, eofs>>
    /\ UNCHANGED <<cacheVars, otherVars>>

\* lines 416-418: terminate, then wait(timeout=2.0), which raises TimeoutExpired
\* when the process has not gone in time
ListenerExit(t) ==
    /\ lpc[t] = "exit"
    /\ lconn' = [lconn EXCEPT ![t] = "none"]
    /\ \E gone \in BOOLEAN : lpc' = [lpc EXCEPT ![t] = IF gone THEN "dead" ELSE "except"]
    /\ UNCHANGED <<is_monitoring_toast, toast_monitor_thread, toast_queue,
                   toast_listeners, pcMain, lastMain, lbuf, lgen, lcur, lidx, linvoked,
                   lchanged, lstayed, putLog, stops, emitted, eofs>>
    /\ UNCHANGED <<cacheVars, otherVars>>

\* lines 420-421 without line 422: the failure is logged and the thread ends
ListenerExceptLogsOnly(t) ==
    /\ lpc[t] = "except"
    /\ lpc' = [lpc EXCEPT ![t] = "dead"]
    /\ UNCHANGED <<is_monitoring_toast, toast_monitor_thread, toast_queue,
                   toast_listeners, pcMain, lastMain, lconn, lbuf, lgen, lcur, lidx,
                   linvoked, lchanged, lstayed, putLog, stops, emitted, eofs>>
    /\ UNCHANGED <<cacheVars, otherVars>>

\* lines 420-422: the outer handler clears the flag, and the thread ends
ListenerExcept(t) ==
    /\ lpc[t] = "except"
    /\ is_monitoring_toast' = FALSE
    /\ lpc' = [lpc EXCEPT ![t] = "dead"]
    /\ UNCHANGED <<toast_monitor_thread, toast_queue, toast_listeners, pcMain, lastMain,
                   lconn, lbuf, lgen, lcur, lidx, linvoked, lchanged, lstayed, putLog,
                   stops, emitted, eofs>>
    /\ UNCHANGED <<cacheVars, otherVars>>

ListenerStep(t) ==
    \/ ListenerOpen(t)
    \/ ListenerCheck(t)
    \/ ListenerRead(t)
    \/ ListenerEmptyRead(t)
    \/ ListenerReopen(t)
    \/ ListenerDispatch(t)
    \/ ListenerExit(t)
    \/ ListenerExcept(t)

----------------------------------------------------------------------------
(* The toast monitor: the device *)

\* the device produces an event line; every open events process writes it
EmitLine ==
    /\ emitted < MaxLines
    /\ emitted' = emitted + 1
    /\ \E line \in DeviceLines :
           lbuf' = [t \in Threads |->
                       IF lconn[t] = "open" THEN Append(lbuf[t], line) ELSE lbuf[t]]
    /\ UNCHANGED <<is_monitoring_toast, toast_monitor_thread, toast_queue,
                   toast_listeners, pcMain, lastMain, lpc, lconn, lgen, lcur, lidx,
                   linvoked, lchanged, lstayed, putLog, stops, eofs>>
    /\ UNCHANGED <<cacheVars, otherVars>>

\* an events process ends by itself (adb lost the device): its stream is at EOF
\* once the lines already written are read
StreamEof ==
    /\ eofs < MaxEof
    /\ eofs' = eofs + 1
    /\ \E t \in Threads :
           /\ lconn[t] = "open"
           /\ lconn' = [lconn EXCEPT ![t] = "eof"]
    /\ UNCHANGED <<is_monitoring_toast, toast_monitor_thread, toast_queue,
                   toast_listeners, pcMain, lastMain, lpc, lbuf, lgen, lcur, lidx,
                   linvoked, lchanged, lstayed, putLog, stops, emitted>>
    /\ UNCHANGED <<cacheVars, otherVars>>

ToastNext ==
    \/ StartFlag
    \/ StartSpawn
    \/ StopFlag
    \/ StopNudgeUp
    \/ StopNudgeDown
    \/ StopJoin
    \/ AddToastListener
    \/ RemoveToastListener
    \/ \E t \in Threads : ListenerStep(t)
    \/ EmitLine
    \/ StreamEof

\* a controller right after construction, its toast monitor at work
ToastInit ==
    /\ ops = 0
    /\ device = <<"d">>
    /\ use_cache = TRUE
    /\ files = << >>
    /\ activity_cache = << >>
    /\ current_activity = Absent
    /\ foreground = Absent
    /\ tree = << >>
    /\ last = NoCall
    /\ resolved = << >>
    /\ saved = NoSave
    /\ ToastNew
    /\ ConsumerNew
    /\ KeyNew
    /\ StreamNew

ToastSpec == ToastInit /\ [][ToastNext]_vars

\* the threads run, and so does the main flow while it is inside stop
ToastFairness ==
    /\ \A t \in Threads : WF_vars(ListenerStep(t))
    /\ WF_vars(StopNudgeUp) /\ WF_vars(StopNudgeDown) /\ WF_vars(StopJoin)

ToastFairSpec == ToastSpec /\ ToastFairness

----------------------------------------------------------------------------
(* The toast monitor: a listener thread whose adb cannot be started *)

\* lines 363 and 384: subprocess.Popen raises (adb is gone from the path, or no
\* process can be created); no handler inside the loop takes an OSError, so
\* the thread is at line 420
ListenerPopenFails(t) ==
    /\ lpc[t] \in {"open", "reopen"}
    /\ lpc' = [lpc EXCEPT ![t] = "except"]
    /\ UNCHANGED <<is_monitoring_toast, toast_monitor_thread, toast_queue,
                   toast_listeners, pcMain, lastMain, lconn, lbuf, lgen, lcur, lidx,
                   linvoked, lchanged, lstayed, putLog, stops, emitted, eofs>>
    /\ UNCHANGED <<cacheVars, otherVars>>

FaultNext == ToastNext \/ \E t \in Threads : ListenerPopenFails(t)

FaultSpec == ToastInit /\ [][FaultNext]_vars

----------------------------------------------------------------------------
(* The toast monitor: a listener thread whose read and whose put are two steps *)

ToastLineB == [notif |-> TRUE, toastcls |-> TRUE, body |-> <<"Text: [", "b", "];">>]

\* a notification state change of a class that is not Toast
OtherClassLine ==
    [notif |-> TRUE, toastcls |-> FALSE, body |-> <<"Text: [", "n", "];">>]

\* a toast event whose line holds no "Text: [" field
NoTextFieldLine == [notif |-> TRUE, toastcls |-> TRUE, body |-> <<"x", "];">>]

StreamLines == {ToastLine, ToastLineB, BlankToastLine, OtherClassLine, NoTextFieldLine}

\* lines 396-398: the text of a line, NoText when the line is no toast event or
\* _parse_toast_text returns None
ToastTextOf(line) == IF IsToastEvent(line) THEN ParseToastText(line.body) ELSE NoText

\* line 378: readline returns a line
ListenerReadLine(t) ==
    /\ lpc[t] = "read"
    /\ lbuf[t] # << >>
    /\ lbuf' = [lbuf EXCEPT ![t] = Tail(@)]
    /\ lline' = [lline EXCEPT ![t] = Head(lbuf[t])]
    /\ readLog' = Append(readLog, [line |-> Head(lbuf[t]), thread |-> t])
    /\ lpc' = [lpc EXCEPT ![t] = "look"]
    /\ UNCHANGED <<is_monitoring_toast, toast_monitor_thread, toast_queue,
                   toast_listeners, pcMain, lastMain, lconn, lgen, lcur, lidx, linvoked,
                   lchanged, lstayed, putLog, stops, emitted, eofs>>
    /\ UNCHANGED <<cacheVars, consumerVars, kcall>>

\* lines 396-401: the line is looked at; the text of a toast event is put on the
\* queue and the for loop over the callbacks begins
ListenerPut(t) ==
    /\ lpc[t] = "look"
    /\ LET text == ToastTextOf(lline[t])
       IN  IF text # NoText
           THEN /\ toast_queue' = Append(toast_queue, text)
                /\ putLog' = Append(putLog, [text |-> text, thread |-> t,
                                              gen |-> lgen[t]])
                /\ lcur' = [lcur EXCEPT ![t] = text]
                /\ lidx' = [lidx EXCEPT ![t] = 1]
                /\ linvoked' = [linvoked EXCEPT ![t] = << >>]
                /\ lchanged' = [lchanged EXCEPT ![t] = FALSE]
                /\ lstayed' = [lstayed EXCEPT ![t] = Registered]
                /\ lpc' = [lpc EXCEPT ![t] = "dispatch"]
           ELSE /\ lpc' = [lpc EXCEPT ![t] = "check"]
                /\ UNCHANGED <<toast_queue, putLog, lcur, lidx, linvoked, lchanged, lstayed>>
    /\ lline' = [lline EXCEPT ![t] = NoLine]
    /\ UNCHANGED <<is_monitoring_toast, toast_monitor_thread, toast_listeners, pcMain,
                   lastMain, lconn, lbuf, lgen, stops, emitted, eofs>>
    /\ UNCHANGED <<cacheVars, consumerVars, kcall, readLog>>

StreamListenerStep(t) ==
    \/ ListenerOpen(t)
    \/ ListenerCheck(t)
    \/ ListenerReadLine(t)
    \/ ListenerPut(t)
    \/ ListenerEmptyRead(t)
    \/ ListenerReopen(t)
    \/ ListenerDispatch(t)
    \/ ListenerExit(t)
    \/ ListenerExcept(t)

\* the device produces an event line of any kind; every open events process
\* writes it
EmitStreamLine ==
    /\ emitted < MaxLines
    /\ emitted' = emitted + 1
    /\ \E line \in StreamLines :
           lbuf' = [t \in Threads |->
                       IF lconn[t] = "open" THEN Append(lbuf[t], line) ELSE lbuf[t]]
    /\ UNCHANGED <<is_monitoring_toast, toast_monitor_thread, toast_queue,
                   toast_listeners, pcMain, lastMain, lpc, lconn, lgen, lcur, lidx,
                   linvoked, lchanged, lstayed, putLog, stops, eofs>>
    /\ UNCHANGED <<cacheVars, otherVars>>

StreamNext ==
    \/ StartFlag
    \/ StartSpawn
    \/ StopFlag
    \/ StopNudgeUp
    \/ StopNudgeDown
    \/ StopJoin
    \/ \E t \in Threads : StreamListenerStep(t)
    \/ EmitStreamLine
    \/ StreamEof

StreamSpec == ToastInit /\ [][StreamNext]_vars

----------------------------------------------------------------------------
(* The toast readers: get_toast, wait_for_toast, get_all_toasts_in_time *)

MaxTime == 6
MaxPuts == 3
MaxCalls == 2

\* the timeout arguments the main flow passes
Timeouts == {0, 3, 5}

\* the texts of the toasts the device shows
Texts == {<<"a">>, <<"a", "b">>}

\* the texts the main flow waits for
Expected == {<<"b">>}

\* expected_text in toast
Contains(sub, str) ==
    \E i \in 1..(Len(str) - Len(sub) + 1) : SubSeq(str, i, i + Len(sub) - 1) = sub

\* queue.Queue.get(timeout=...) with block left at True, for a timeout that is
\* not negative: an item when there is one, Empty once the deadline is reached
\* with the queue empty, and otherwise the caller stays blocked
QueueGetNoWait(q, clock, deadline) == IF q # << >> THEN "item" ELSE "Empty"

QueueGet(q, clock, deadline) ==
    IF q # << >> THEN "item"
    ELSE IF clock >= deadline THEN "Empty"
    ELSE "blocked"

\* queue.Queue.get raises ValueError for a negative timeout, whatever is queued
TimeoutAccepted(timeout) == timeout >= 0

\* line 458 and line 468: the loop test
InWindow(clock, start_time, timeout) == clock - start_time < timeout

\* line 459: the timeout of every inner get_toast
WaitInnerTimeout(clock, start_time, timeout) == timeout

\* line 469: the timeout of every inner get_toast
DrainInnerTimeout(clock, start_time, timeout) == timeout - (clock - start_time)

\* whether the main flow is blocked inside queue.Queue.get
Blocked ==
    /\ cpc \in {"get", "w_get", "d_get"}
    /\ QueueGet(toast_queue, now, ccall.deadline) = "blocked"

\* the main flow is not inside a call, or it waits: nothing of it runs now
Waiting == cpc = "idle" \/ Blocked

toastRest == <<is_monitoring_toast, toast_monitor_thread, toast_listeners, pcMain,
               lastMain, lpc, lconn, lbuf, lgen, lcur, lidx, linvoked, lchanged, lstayed,
               putLog, stops, emitted, eofs>>

\* the record of a call that begins now
NewToastCall(op, timeout, expected) ==
    [NoToastCall EXCEPT !.op = op, !.timeout = timeout, !.expected = expected,
                        !.start = now, !.outcome = "running",
                        !.queued = Len(toast_queue), !.from = Len(arrived),
                        !.seen = Len(arrived), !.ended = now]

\* the main flow calls get_toast(timeout)
CallGetToast ==
    /\ cpc = "idle" /\ calls < MaxCalls
    /\ calls' = calls + 1
    /\ \E timeout \in Timeouts :
           ccall' = [NewToastCall("next", timeout, NoText) EXCEPT
                        !.deadline = now + timeout]
    /\ cpc' = "get"
    /\ UNCHANGED <<now, arrived, taken, toast_queue, toastRest, cacheVars, kcall, streamVars>>

\* lines 441-444: the get returns an item, or raises Empty, which becomes None
GetToastReturn ==
    /\ cpc = "get"
    /\ LET got == QueueGet(toast_queue, now, ccall.deadline)
       IN  /\ got # "blocked"
           /\ IF got = "item"
              THEN /\ toast_queue' = Tail(toast_queue)
                   /\ taken' = taken + 1
                   /\ ccall' = [ccall EXCEPT !.outcome = "return",
                                             !.text = Head(toast_queue),
                                             !.took = 1, !.seen = Len(arrived), !.ended = now]
              ELSE /\ ccall' = [ccall EXCEPT !.outcome = "return", !.text = NoText,
                                             !.seen = Len(arrived), !.ended = now]
                   /\ UNCHANGED <<toast_queue, taken>>
    /\ cpc' = "idle"
    /\ UNCHANGED <<now, arrived, calls, toastRest, cacheVars, kcall, streamVars>>

\* the main flow calls wait_for_toast(expected_text, timeout): line 457
CallWaitForToast ==
    /\ cpc = "idle" /\ calls < MaxCalls
    /\ calls' = calls + 1
    /\ \E timeout \in Timeouts, expected \in Expected :
           ccall' = NewToastCall("waitFor", timeout, expected)
    /\ cpc' = "w_check"
    /\ UNCHANGED <<now, arrived, taken, toast_queue, toastRest, cacheVars, kcall, streamVars>>

\* lines 458-459 and 462: the loop test, then the inner get_toast begins
WaitCheck ==
    /\ cpc = "w_check"
    /\ IF InWindow(now, ccall.start, ccall.timeout)
       THEN /\ ccall' = [ccall EXCEPT !.deadline =
                            now + WaitInnerTimeout(now, ccall.start, ccall.timeout)]
            /\ cpc' = "w_get"
       ELSE /\ ccall' = [ccall EXCEPT !.outcome = "return", !.flag = FALSE,
                                      !.seen = Len(arrived), !.ended = now]
            /\ cpc' = "idle"
    /\ UNCHANGED <<now, arrived, taken, calls, toast_queue, toastRest, cacheVars, kcall, streamVars>>

\* a wait_for_toast that puts a text it was not waiting for back on the queue
WaitGetPutsBack ==
    /\ cpc = "w_get"
    /\ LET got == QueueGet(toast_queue, now, ccall.deadline)
       IN  /\ got # "blocked"
           /\ IF got = "item"
              THEN IF Contains(ccall.expected, Head(toast_queue))
                   THEN /\ toast_queue' = Tail(toast_queue)
                        /\ taken' = taken + 1
                        /\ ccall' = [ccall EXCEPT !.outcome = "return",
                                        !.flag = TRUE, !.text = Head(toast_queue),
                                        !.matched = taken + 1, !.took = @ + 1,
                                        !.seen = Len(arrived), !.ended = now]
                        /\ cpc' = "idle"
                   ELSE /\ toast_queue' = Append(Tail(toast_queue), Head(toast_queue))
                        /\ ccall' = [ccall EXCEPT !.took = @ + 1]
                        /\ cpc' = "w_check"
                        /\ UNCHANGED taken
              ELSE /\ cpc' = "w_check"
                   /\ UNCHANGED <<toast_queue, taken, ccall>>
    /\ UNCHANGED <<now, arrived, calls, toastRest, cacheVars, kcall, streamVars>>

\* lines 459-461: the inner get_toast returns, and the text is looked at
WaitGet ==
    /\ cpc = "w_get"
    /\ LET got == QueueGet(toast_queue, now, ccall.deadline)
       IN  /\ got # "blocked"
           /\ IF got = "item"
              THEN /\ toast_queue' = Tail(toast_queue)
                   /\ taken' = taken + 1
                   /\ IF Contains(ccall.expected, Head(toast_queue))
                      THEN /\ ccall' = [ccall EXCEPT !.outcome = "return",
                                           !.flag = TRUE, !.text = Head(toast_queue),
                                           !.matched = taken + 1, !.took = @ + 1,
                                           !.seen = Len(arrived), !.ended = now]
                           /\ cpc' = "idle"
                      ELSE /\ ccall' = [ccall EXCEPT !.took = @ + 1]
                           /\ cpc' = "w_check"
              ELSE /\ cpc' = "w_check"
                   /\ UNCHANGED <<toast_queue, taken, ccall>>
    /\ UNCHANGED <<now, arrived, calls, toastRest, cacheVars, kcall, streamVars>>

\* the main flow calls get_all_toasts_in_time(timeout): lines 466-467
CallGetAllToastsInTime ==
    /\ cpc = "idle" /\ calls < MaxCalls
    /\ calls' = calls + 1
    /\ \E timeout \in Timeouts : ccall' = NewToastCall("drain", timeout, NoText)
    /\ cpc' = "d_check"
    /\ UNCHANGED <<now, arrived, taken, toast_queue, toastRest, cacheVars, kcall, streamVars>>

\* lines 468 and 472: the loop test
DrainCheck ==
    /\ cpc = "d_check"
    /\ IF InWindow(now, ccall.start, ccall.timeout)
       THEN /\ cpc' = "d_arg"
            /\ UNCHANGED ccall
       ELSE /\ ccall' = [ccall EXCEPT !.outcome = "return", !.seen = Len(arrived), !.ended = now]
            /\ cpc' = "idle"
    /\ UNCHANGED <<now, arrived, taken, calls, toast_queue, toastRest, cacheVars, kcall, streamVars>>

\* line 469: the clock is read again for the timeout of the inner get_toast,
\* which begins, or raises ValueError out of the call
DrainArg ==
    /\ cpc = "d_arg"
    /\ LET timeout == DrainInnerTimeout(now, ccall.start, ccall.timeout)
       IN  IF TimeoutAccepted(timeout)
           THEN /\ ccall' = [ccall EXCEPT !.deadline = now + timeout]
                /\ cpc' = "d_get"
           ELSE /\ ccall' = [ccall EXCEPT !.outcome = "ValueError",
                                          !.seen = Len(arrived), !.ended = now]
                /\ cpc' = "idle"
    /\ UNCHANGED <<now, arrived, taken, calls, toast_queue, toastRest, cacheVars, kcall, streamVars>>

\* lines 469-471: the inner get_toast returns, and a text is appended
DrainGet ==
    /\ cpc = "d_get"
    /\ LET got == QueueGet(toast_queue, now, ccall.deadline)
       IN  /\ got # "blocked"
           /\ IF got = "item"
              THEN /\ toast_queue' = Tail(toast_queue)
                   /\ taken' = taken + 1
                   /\ ccall' = [ccall EXCEPT
                                   !.all_toasts = Append(@, Head(toast_queue)),
                                   !.took = @ + 1]
              ELSE UNCHANGED <<toast_queue, taken, ccall>>
    /\ cpc' = "d_check"
    /\ UNCHANGED <<now, arrived, calls, toastRest, cacheVars, kcall, streamVars>>

\* A tick of the clock.  The statements of the main flow take no time, so the
\* clock stands still while one of them is due; only between the two clock
\* reads of lines 468 and 469 may the main flow lose the processor for a while.
Tick ==
    /\ now < MaxTime
    /\ Waiting \/ cpc = "d_arg"
    /\ now' = now + 1
    /\ UNCHANGED <<cpc, ccall, arrived, taken, calls, toast_queue, toastRest,
                   cacheVars, kcall, streamVars>>

\* line 400, seen from the readers: the listener thread puts the text of a toast
QueuePut ==
    /\ Len(arrived) < MaxPuts
    /\ Waiting \/ cpc = "d_arg"
    /\ \E text \in Texts :
           /\ toast_queue' = Append(toast_queue, text)
           /\ arrived' = Append(arrived, [text |-> text, at |-> now])
    /\ UNCHANGED <<now, cpc, ccall, taken, calls, toastRest, cacheVars, kcall, streamVars>>

ConsumerNext ==
    \/ CallGetToast
    \/ GetToastReturn
    \/ CallWaitForToast
    \/ WaitCheck
    \/ WaitGet
    \/ CallGetAllToastsInTime
    \/ DrainCheck
    \/ DrainArg
    \/ DrainGet
    \/ Tick
    \/ QueuePut

\* a controller whose monitor is running: its listener thread waits for a line
ConsumerInit ==
    /\ ops = 0
    /\ device = <<"d">>
    /\ use_cache = TRUE
    /\ files = << >>
    /\ activity_cache = << >>
    /\ current_activity = Absent
    /\ foreground = Absent
    /\ tree = << >>
    /\ last = NoCall
    /\ resolved = << >>
    /\ saved = NoSave
    /\ is_monitoring_toast = TRUE
    /\ toast_monitor_thread = 1
    /\ toast_queue = << >>
    /\ toast_listeners = << >>
    /\ pcMain = "idle"
    /\ lastMain = [op |-> "start", sawAlive |-> FALSE, thread |-> 1, how |-> "returned"]
    /\ lpc = [t \in Threads |-> IF t = 1 THEN "read" ELSE "unborn"]
    /\ lconn = [t \in Threads |-> IF t = 1 THEN "open" ELSE "none"]
    /\ lbuf = [t \in Threads |-> << >>]
    /\ lgen = [t \in Threads |-> IF t = 1 THEN 1 ELSE 0]
    /\ lcur = [t \in Threads |-> NoText]
    /\ lidx = [t \in Threads |-> 0]
    /\ linvoked = [t \in Threads |-> << >>]
    /\ lchanged = [t \in Threads |-> FALSE]
    /\ lstayed = [t \in Threads |-> {}]
    /\ putLog = << >>
    /\ stops = 0
    /\ emitted = 0
    /\ eofs = 0
    /\ ConsumerNew
    /\ KeyNew
    /\ StreamNew

ConsumerSpec == ConsumerInit /\ [][ConsumerNext]_vars

----------------------------------------------------------------------------
(* The cache key of a call: find_element's keyword arguments and _get_element_key *)

ArgNames == {"resource_id", "text", "class_name"}

\* the values a test passes for a predicate; in the third, "_" is that
\* character and "text=" stands for those five characters
ArgValues == {<<"r">>, <<"x">>, <<"r", "_", "text=", "x">>}

\* a call as it is written: keyword arguments <<name, value>> in some order, no
\* name twice
KeyArgLists ==
    UNION {{a \in [1..n -> ArgNames \X ArgValues] :
               \A i, j \in 1..n : i # j => a[i][1] # a[j][1]} : n \in 1..3}

\* the value the call passes under name, Absent (the default None) when it passes none
ArgOf(args, name) ==
    IF \E i \in 1..Len(args) : args[i][1] = name
    THEN args[CHOOSE i \in 1..Len(args) : args[i][1] = name][2]
    ELSE Absent

\* arguments bound by position: the first to resource_id, the second to text
BindPositional(args) ==
    [rid |-> IF Len(args) >= 1 THEN args[1][2] ELSE Absent,
     text |-> IF Len(args) >= 2 THEN args[2][2] ELSE Absent,
     cls |-> IF Len(args) >= 3 THEN args[3][2] ELSE Absent]

\* lines 139-141 and 155: keyword arguments are bound to the parameters by name
Bind(args) ==
    [rid |-> ArgOf(args, "resource_id"), text |-> ArgOf(args, "text"),
     cls |-> ArgOf(args, "class_name")]

\* line 155
KeyOfCall(args) ==
    LET q == Bind(args) IN GetElementKey(q.rid, q.text, q.cls)

\* two calls that pass the same predicates with the same values
SamePredicates(a, b) ==
    {a[i] : i \in 1..Len(a)} = {b[i] : i \in 1..Len(b)}

\* the key of a call is computed
KeyCall ==
    /\ ~kcall.done
    /\ kcall' = [kcall EXCEPT !.key = KeyOfCall(kcall.args), !.done = TRUE]
    /\ UNCHANGED <<cacheVars, toastVars, consumerVars, streamVars>>

\* the key of a call with the same predicates, written in any order
KeyCallAgain ==
    /\ kcall.done /\ ~kcall.doneAgain
    /\ \E b \in KeyArgLists :
           /\ SamePredicates(kcall.args, b)
           /\ kcall' = [kcall EXCEPT !.again = b, !.keyAgain = KeyOfCall(b),
                                     !.doneAgain = TRUE]
    /\ UNCHANGED <<cacheVars, toastVars, consumerVars, streamVars>>

\* the key of any other call
KeyCallOther ==
    /\ kcall.done /\ ~kcall.doneOther
    /\ \E b \in KeyArgLists :
           kcall' = [kcall EXCEPT !.other = b, !.keyOther = KeyOfCall(b),
                                  !.doneOther = TRUE]
    /\ UNCHANGED <<cacheVars, toastVars, consumerVars, streamVars>>

KeyNext == KeyCall \/ KeyCallAgain \/ KeyCallOther

KeyInit ==
    /\ ops = 0
    /\ device = <<"d">>
    /\ use_cache = TRUE
    /\ files = << >>
    /\ activity_cache = << >>
    /\ current_activity = Absent
    /\ foreground = Absent
    /\ tree = << >>
    /\ last = NoCall
    /\ resolved = << >>
    /\ saved = NoSave
    /\ ToastNew
    /\ ConsumerNew
    /\ kcall \in {[NoKeyCall EXCEPT !.args = a] : a \in KeyArgLists}
    /\ StreamNew

KeySpec == KeyInit /\ [][KeyNext]_vars

----------------------------------------------------------------------------
(* The element-location cache: properties *)

IsCall == last.op \in {"find", "exists"}

\* C1: with caching on, a query that find_element returned coordinates for on
\* screen S is answered, whenever it is asked again while the resolver reports
\* S, with the same coordinates and without a call of _get_ui_hierarchy.
C1_IdempotentCacheHit ==
    (IsCall /\ use_cache /\ last.activity # Absent /\ last.prior # NoCenter)
        => (last.outcome = "return" /\ last.center = last.prior /\ last.snapshots = 0)

\* a second call for a resolved query, made after the tree has changed so that
\* a live search would no longer find the element
C1_Witness ==
    /\ last.op = "find" /\ use_cache /\ last.prior # NoCenter
    /\ last.hit /\ last.snapshots = 0
    /\ \A i \in 1..Len(tree) : ~NodeMatches(tree[i], last.q)

\* C2: when the resolver reports screen B, find_element answers from the cache
\* only with the entry stored under B; a key stored under other screens only is
\* searched live.
C2_CacheIsolationByScreen ==
    (IsCall /\ use_cache /\ last.activity # Absent)
        => /\ last.hit <=> last.stored
           /\ last.hit => /\ last.outcome = "return"
                          /\ last.center = activity_cache[last.activity][last.key]
           /\ ~last.stored => last.snapshots = 1

\* the same key is cached under another screen, and the call searches live
C2_Witness ==
    /\ last.op = "find" /\ use_cache /\ last.activity # Absent
    /\ last.elsewhere /\ ~last.stored
    /\ last.snapshots = 1 /\ last.outcome = "return"

\* C3: a controller constructed for the device whose unit was written last
\* holds that unit's screen with that unit's entries.
C3_RoundTripPersistence ==
    (last.op = "restart" /\ use_cache /\ saved.valid /\ saved.dev = device)
        => /\ saved.screen \in DOMAIN activity_cache
           /\ activity_cache[saved.screen] = saved.data

\* C4: a query that matches no node of the tree makes find_element raise the
\* not-found error and check_element_exists return False, and the call changes
\* neither the in-memory cache map nor the files.
C4_NotFoundNoMutation ==
    (IsCall /\ last.nomatch)
        => /\ last.notfound
           /\ last.op = "exists" => last.value = "False"
           /\ last.cacheSame
           /\ last.filesSame

\* C5: check_element_exists returns False only when no node matched; every
\* other failure of find_element reaches its caller.
C5_ExistsFalseOnlyOnNotFound ==
    last.op = "exists"
        => /\ last.value = "False" <=> last.notfound
           /\ (last.outcome # "return" /\ ~last.notfound) => last.value = "raise"

\* C14: with use_cache off the constructor loads an empty map, and a call of
\* find_element searches the tree, leaves the in-memory map and the files as
\* they are and writes no unit.
C14_CachingOffIsInert ==
    ~use_cache =>
        /\ last.op \in {"new", "restart"} => activity_cache = << >>
        /\ IsCall => /\ ~last.hit /\ last.snapshots = 1
                     /\ last.cacheSame /\ last.filesSame /\ ~last.wrote

\* with use_cache off, in a directory that holds a unit of this device, a call
\* has returned the centre it found in the tree
C14_Witness ==
    /\ ~use_cache /\ last.op = "find" /\ last.outcome = "return"
    /\ last.snapshots = 1 /\ activity_cache = << >>
    /\ \E f \in DOMAIN files : files[f].ok /\ files[f].by = device

\* C16: for a matched node with bounds [x1,y1][x2,y2] find_element returns
\* ((x1+x2) floor-divided by 2, (y1+y2) floor-divided by 2): (20, 40) for
\* [10,20][30,60] and (0, 0) for [0,0][1,1].
C16_MidpointFloor ==
    (IsCall /\ ~last.hit /\ last.outcome = "return") =>
        LET x1 == last.bounds[1][1][1]  y1 == last.bounds[1][2][1]
            x2 == last.bounds[2][1][1]  y2 == last.bounds[2][2][1]
            mx == last.center[1]        my == last.center[2]
        IN  /\ 2 * mx <= x1 + x2 /\ x1 + x2 < 2 * mx + 2
            /\ 2 * my <= y1 + y2 /\ y1 + y2 < 2 * my + 2
            /\ last.bounds = Box(10, 20, 30, 60) => last.center = <<20, 40>>
            /\ last.bounds = Box(0, 0, 1, 1) => last.center = <<0, 0>>

\* the node with bounds [0,0][1,1] was found in the tree, and (0, 0) returned
C16_Witness ==
    /\ last.op = "find" /\ ~last.hit /\ last.outcome = "return"
    /\ last.bounds = Box(0, 0, 1, 1) /\ last.center = <<0, 0>>

\* C17: on a miss, and with nothing failing outside the controller,
\* find_element returns the midpoint of the first node in document order that
\* equals the query in all the predicates it supplies, one, two or three, and
\* raises the not-found error exactly when there is no such node.
C17_ConjunctiveFirstMatch ==
    (IsCall /\ ~last.hit /\ last.fault = "none") =>
        IF last.want = NoBounds
        THEN last.notfound
        ELSE /\ ~last.notfound
             /\ ParseBounds(last.want) = "ok" =>
                    last.outcome = "return" /\ last.center = Center(last.want)

\* C18 as stated: a hit issues no device command at all.
C18_NoDeviceCommandOnHit ==
    (IsCall /\ last.hit) => last.deviceCmds = 0

\* C18: a hit returns the stored centre without fetching the tree; the one
\* device command of the call is the query that resolves the screen.
C18_HitResolvesScreenOnly ==
    (IsCall /\ last.hit) =>
        /\ last.outcome = "return"
        /\ last.center = activity_cache[last.activity][last.key]
        /\ last.snapshots = 0 /\ last.deviceCmds = 1

\* a hit, on a screen whose tree no longer holds the element
C18_Witness ==
    /\ last.op = "find" /\ last.hit /\ last.deviceCmds = 1 /\ last.snapshots = 0
    /\ last.want = NoBounds

\* C19: with use_cache on and the resolver returning "", find_element searches
\* the tree and hands on what the search gives, the centre of the node found
\* or the not-found error; it adds nothing to the in-memory map and writes no
\* unit, whether or not the directory could be written.
C19_UnresolvedScreenFallsBack ==
    (IsCall /\ use_cache /\ last.activity = Absent) =>
        /\ ~last.hit /\ last.snapshots = 1
        /\ last.cacheSame /\ last.filesSame /\ ~last.wrote
        /\ last.outcome # "OSError"
        /\ (last.node # 0 /\ ParseBounds(last.bounds) = "ok") =>
               last.outcome = "return" /\ last.center = Center(last.bounds)
        /\ (last.fault # "dump" /\ NumConditions(last.q) = 1 /\ last.node = 0) =>
               last.notfound

\* the resolver returned "", the map holds entries of other screens, and the
\* call has returned a centre although the unit could not have been written
C19_Witness ==
    /\ last.op = "find" /\ use_cache /\ last.activity = Absent
    /\ last.outcome = "return" /\ last.center # NoCenter /\ last.fault = "write"
    /\ \E a \in DOMAIN activity_cache : activity_cache[a] # << >>

\* the units of dev that json.load accepts, by the screen they were written for
UnitsOf(dev) == {f \in DOMAIN files : files[f].ok /\ files[f].by = dev}

\* C20: the map a new controller for device D loads holds exactly the units
\* that were written for D and that json.load accepts, each under the screen it
\* was written for; no unit written for another device is in it.
C20_LoadOwnUnitsOnly ==
    (last.op = "restart" /\ use_cache) =>
        /\ \A n \in DOMAIN activity_cache :
               \E f \in UnitsOf(device) :
                   files[f].of = n /\ files[f].data = activity_cache[n]
        /\ \A f \in UnitsOf(device) :
               /\ files[f].of \in DOMAIN activity_cache
               /\ activity_cache[files[f].of] = files[f].data

\* C24: with caching on and no call in progress, every screen whose in-memory
\* map holds an entry has its unit on disk, the file of (device, screen), and
\* the unit holds the same key -> centre map as memory.
C24_DurableEqualsMemory ==
    use_cache =>
        \A a \in DOMAIN activity_cache :
            activity_cache[a] # << >> =>
                /\ CacheFileName(device, a) \in DOMAIN files
                /\ files[CacheFileName(device, a)].ok
                /\ files[CacheFileName(device, a)].data = activity_cache[a]

\* the step constructs a controller
Constructs == ops' # ops /\ last'.op = "restart"

\* the step is a call of find_element for a key that is stored under the screen
AsksStored ==
    /\ ops' # ops /\ last'.op \in {"find", "exists"}
    /\ last'.activity \in DOMAIN activity_cache
    /\ last'.key \in DOMAIN activity_cache[last'.activity]

\* no step of a controller removes or changes an entry, and a call for a
\* stored key returns the stored centre without looking at the tree
C25_Step ==
    /\ ~Constructs =>
           \A a \in DOMAIN activity_cache :
               /\ a \in DOMAIN activity_cache'
               /\ \A k \in DOMAIN activity_cache[a] :
                      /\ k \in DOMAIN activity_cache'[a]
                      /\ activity_cache'[a][k] = activity_cache[a][k]
    /\ AsksStored =>
           /\ last'.outcome = "return"
           /\ last'.center = activity_cache[last'.activity][last'.key]
           /\ last'.snapshots = 0

\* C25: an entry stored for (screen, key) is not removed and not changed by
\* any later call of the controller or change of the device, and every later
\* find_element of that key on that screen returns the stored centre, also
\* when the element has moved or has gone from the tree.
C25_EntriesNeverChange == [][C25_Step]_vars

\* a hit for an element that has moved: the tree would now give another centre
C25_Witness ==
    /\ IsCall /\ last.hit /\ last.outcome = "return"
    /\ last.want # NoBounds /\ ParseBounds(last.want) = "ok"
    /\ Center(last.want) # last.center

\* the position of part in key, 0 when the call passes nothing under name
PartAt(name, part) ==
    IF ArgOf(kcall.args, name) = Absent THEN 0 ELSE FindFrom(kcall.key, part, 1)

\* C15: two calls that pass the same predicates with the same values, written
\* in whatever order, have the same cache key, and the key names the predicates
\* that are present in the order id, text, class.
C15_KeyCanonicalOrder ==
    /\ kcall.doneAgain => kcall.keyAgain = kcall.key
    /\ kcall.done =>
           /\ \A n \in ArgNames :
                  ArgOf(kcall.args, n) # Absent <=>
                      PartAt(n, CASE n = "resource_id" -> "id="
                                  [] n = "text" -> "text="
                                  [] n = "class_name" -> "class=") > 0
           /\ PartAt("resource_id", "id=") > 0 /\ PartAt("text", "text=") > 0
                  => PartAt("resource_id", "id=") < PartAt("text", "text=")
           /\ PartAt("text", "text=") > 0 /\ PartAt("class_name", "class=") > 0
                  => PartAt("text", "text=") < PartAt("class_name", "class=")
           /\ PartAt("resource_id", "id=") > 0 /\ PartAt("class_name", "class=") > 0
                  => PartAt("resource_id", "id=") < PartAt("class_name", "class=")

\* the same three predicates, passed in reverse order, gave the same key
C15_Witness ==
    /\ kcall.doneAgain /\ Len(kcall.args) = 3
    /\ kcall.again = <<kcall.args[3], kcall.args[2], kcall.args[1]>>
    /\ kcall.keyAgain = kcall.key

\* C27: two calls that differ in which predicates they pass, or in the value
\* of one, never have the same cache key.
C27_KeyInjective ==
    (kcall.doneOther /\ Bind(kcall.args) # Bind(kcall.other))
        => kcall.key # kcall.keyOther

----------------------------------------------------------------------------
(* The toast monitor: properties *)

Puts == {putLog[i] : i \in 1..Len(putLog)}

\* while a thread hands a toast out: the toast is on the queue already, and as
\* long as the list is not changed the callbacks called are those before the
\* loop position, whatever they did; and handing out ends nowhere but in the loop
C6_Handing ==
    \A t \in Threads :
        /\ lcur[t] # NoText => lpc[t] = "dispatch"
        /\ lpc[t] = "dispatch" =>
               /\ \E e \in Puts : e.text = lcur[t] /\ e.thread = t
               /\ ~lchanged[t] => linvoked[t] = SubSeq(toast_listeners, 1, lidx[t] - 1)

\* a round of the for loop keeps the message and the flag, and the loop is left
\* only past the end of the list, back to the loop test
C6_Round ==
    \A t \in Threads :
        lpc[t] = "dispatch" =>
            /\ lpc'[t] = "dispatch" => lcur'[t] = lcur[t]
            /\ lpc'[t] # "dispatch" =>
                   lpc'[t] = "check" /\ lidx[t] > Len(toast_listeners)
            /\ linvoked'[t] # linvoked[t] =>
                   is_monitoring_toast' = is_monitoring_toast

\* C6: a callback that raises on every call keeps no toast from the queue and
\* no other registered callback from being called with the same toast, and the
\* listener loop goes on with the monitor's state as it was.
C6_ListenerFailureIsolated == []C6_Handing /\ [][C6_Round]_vars

\* both callbacks were called with a toast that is on the queue, the raising
\* one first, and the monitor is Running
C6_Witness ==
    \E t \in Threads :
        /\ lpc[t] = "dispatch" /\ linvoked[t] = <<"bad", "good">>
        /\ toast_listeners = <<"bad", "good">>
        /\ is_monitoring_toast
        /\ \E i \in 1..Len(toast_queue) : toast_queue[i] = lcur[t]

\* the empty read terminates the process and clears no flag; the reopening
\* starts a new process and goes back to the loop test
C7_Reopening ==
    \A t \in Threads :
        /\ (lpc[t] = "read" /\ lbuf[t] = << >> /\ lpc'[t] # "read") =>
               /\ lpc'[t] = "reopen" /\ lconn'[t] = "none"
               /\ is_monitoring_toast' = is_monitoring_toast
        /\ (lpc[t] = "reopen" /\ lpc'[t] # "reopen") =>
               /\ lpc'[t] = "check" /\ lconn'[t] = "open" /\ lgen'[t] = lgen[t] + 1
               /\ is_monitoring_toast' = is_monitoring_toast

\* a toast a thread hands out was put on the queue from the process it was read from
C7_Delivered ==
    \A t \in Threads :
        lpc[t] = "dispatch" =>
            \E e \in Puts : e.text = lcur[t] /\ e.thread = t /\ e.gen = lgen[t]

\* C7: after an empty read the listener terminates the process, starts a new
\* one and goes on; toasts read from the new process reach the queue, and the
\* empty read does not make the monitor Stopped.
C7_StreamStallRecovery == []C7_Delivered /\ [][C7_Reopening]_vars

\* a toast read from a second process is on the queue, the monitor Running
C7_Witness ==
    \E t \in Threads :
        /\ lgen[t] >= 2 /\ lpc[t] = "dispatch" /\ is_monitoring_toast
        /\ \E e \in Puts : e.thread = t /\ e.gen = lgen[t]
        /\ toast_queue # << >>

InStop == pcMain \in {"stop_nudge1", "stop_nudge2", "stop_join"}

\* C8: a stop call that found the listener alive comes to its end, wherever the
\* listener was, when each key event that reaches the device makes the open
\* events processes write a line.
C8_StopTerminates == InStop ~> ~InStop

\* stop has joined a listener that it found alive and has returned
C8_Witness ==
    /\ lastMain.op = "stop" /\ lastMain.sawAlive /\ lastMain.how = "returned"
    /\ pcMain = "idle"

\* C9: when control has left a stop call that found a listener alive, also by
\* a failed key event, the monitor is Stopped and that listener has ended.
C9_StopLeavesStopped ==
    (lastMain.op = "stop" /\ lastMain.sawAlive /\ pcMain = "idle")
        => (~is_monitoring_toast /\ ~Alive(lastMain.thread))

\* C10: at most one listener thread is alive at any time.
C10_AtMostOneListener == Cardinality({t \in Threads : Alive(t)}) <= 1

\* how many times callback cb was called with the toast thread t hands out
TimesInvoked(t, cb) == Cardinality({i \in 1..Len(linvoked[t]) : linvoked[t][i] = cb})

\* the for loop of thread t has passed the end of the list
LoopAtEnd(t) == lpc[t] = "dispatch" /\ lidx[t] > Len(toast_listeners)

\* C26: for a toast that was put on the queue, every callback that was
\* registered when the for loop began and was not removed has been called
\* once when the loop ends, and never more than once, also when the main flow
\* adds or removes other callbacks while the loop runs.
C26_StayingListenersInvokedOnce ==
    \A t \in Threads : \A cb \in lstayed[t] :
        /\ TimesInvoked(t, cb) <= 1
        /\ LoopAtEnd(t) => TimesInvoked(t, cb) = 1

\* C29: while is_monitoring_toast is set and the main flow is not inside
\* start, the thread start created last is alive, whatever the order of
\* start, stop and the ending of a listener, by its loop test or by an
\* exception.
C29_RunningHasListener ==
    (is_monitoring_toast /\ pcMain # "start_spawn")
        => (toast_monitor_thread # 0 /\ Alive(toast_monitor_thread))

\* the first listener has ended and stop has been called; the monitor is
\* Running again and the second listener waits for a line
C29_Witness ==
    /\ is_monitoring_toast /\ pcMain = "idle" /\ stops = 1
    /\ lpc[1] = "dead" /\ toast_monitor_thread = 2 /\ lpc[2] = "read"

----------------------------------------------------------------------------
(* The toast readers: properties *)

Finished(op) == cpc = "idle" /\ ccall.op = op

\* the position in arrived of the oldest text that was queued when the call began
OldestAtCall == ccall.from - ccall.queued + 1

\* C11: get_toast(timeout) returns, without raising, the oldest text when one
\* was queued or was put before the timeout ran out, and None when the queue
\* stayed empty until the timeout had run out.
C11_NextOldestOrNone ==
    Finished("next") =>
        /\ ccall.outcome = "return"
        /\ IF ccall.seen >= OldestAtCall
           THEN /\ ccall.text = arrived[OldestAtCall].text
                /\ ccall.took = 1
                /\ arrived[OldestAtCall].at <= ccall.start + ccall.timeout
           ELSE /\ ccall.text = NoText
                /\ ccall.took = 0
                /\ ccall.ended >= ccall.start + ccall.timeout

\* a get_toast that began on an empty queue has returned a text put later, and
\* the queue holds a younger one
C11_Witness ==
    /\ Finished("next") /\ ccall.queued = 0 /\ ccall.text # NoText
    /\ arrived[OldestAtCall].at > ccall.start
    /\ toast_queue # << >>

\* C12: wait_for_toast returns True on the first text it takes off the queue
\* that contains expected_text, a text put no later than timeout after the call
\* began, and False when the timeout has run out first.
C12_WaitForWithinTimeout ==
    Finished("waitFor") =>
        /\ ccall.outcome = "return"
        /\ IF ccall.flag
           THEN /\ Contains(ccall.expected, arrived[ccall.matched].text)
                /\ \A i \in OldestAtCall..(ccall.matched - 1) :
                       ~Contains(ccall.expected, arrived[i].text)
                /\ arrived[ccall.matched].at <= ccall.start + ccall.timeout
           ELSE ccall.ended >= ccall.start + ccall.timeout

\* the texts put from position i of arrived on, those put before tick t
RECURSIVE PutBefore(_, _)
PutBefore(i, t) ==
    IF i > Len(arrived) THEN << >>
    ELSE IF arrived[i].at < t THEN <<arrived[i].text>> \o PutBefore(i + 1, t)
    ELSE PutBefore(i + 1, t)

RECURSIVE PutFrom(_)
PutFrom(i) == IF i > Len(arrived) THEN << >> ELSE <<arrived[i].text>> \o PutFrom(i + 1)

\* C13: get_all_toasts_in_time(timeout), begun on an empty queue, returns in
\* the order they were put exactly the texts put before timeout had passed;
\* the texts put later are not in the result and are still queued.
C13_DrainWindow ==
    (Finished("drain") /\ ccall.queued = 0) =>
        /\ ccall.outcome = "return"
        /\ ccall.all_toasts = PutBefore(ccall.from + 1, ccall.start + ccall.timeout)
        /\ toast_queue = PutFrom(ccall.from + Len(ccall.all_toasts) + 1)

\* C23: get_all_toasts_in_time(timeout) never raises: the timeout line 469 hands
\* to the inner get_toast is not negative, however much time passes between
\* the loop test of line 468 and line 469, and the call ends by returning.
C23_DrainNeverRaises ==
    /\ cpc = "d_get" => ccall.deadline >= now
    /\ Finished("drain") => ccall.outcome = "return"

\* how many texts had been taken off the queue when the call began
TakenAtCall == ccall.from - ccall.queued

\* the texts at positions i..j of arrived
RECURSIVE PutBetween(_, _)
PutBetween(i, j) ==
    IF i > j THEN << >> ELSE <<arrived[i].text>> \o PutBetween(i + 1, j)

\* C28: every text wait_for_toast takes off the queue is gone from it, also a
\* text that does not contain expected_text; the queue holds the texts not
\* taken, in the order they were put; and what a later get_toast,
\* wait_for_toast or get_all_toasts_in_time gets are texts that were still
\* queued when it began, never one taken before.
C28_WaitForDiscards ==
    /\ toast_queue = PutFrom(taken + 1)
    /\ ccall.op # "new" =>
           /\ taken = TakenAtCall + ccall.took
           /\ ccall.op = "waitFor" /\ ccall.flag =>
                  /\ ccall.matched = taken
                  /\ ccall.text = arrived[taken].text
           /\ ccall.op = "next" /\ ccall.took = 1 =>
                  ccall.text = arrived[TakenAtCall + 1].text
           /\ ccall.op = "drain" =>
                  ccall.all_toasts = PutBetween(TakenAtCall + 1, taken)

\* a wait_for_toast has taken a text it was not waiting for and then the one
\* it was waiting for, and a younger text is still queued
C28_Witness ==
    /\ Finished("waitFor") /\ ccall.flag /\ ccall.took = 2
    /\ ~Contains(ccall.expected, arrived[taken - 1].text)
    /\ Len(arrived) = taken + 1
    /\ toast_queue = <<arrived[taken + 1].text>>

----------------------------------------------------------------------------
(* The event stream and the queue: properties *)

\* whether entry i of readLog is the line its thread holds and has not looked at
Unlooked(i) ==
    /\ lpc[readLog[i].thread] = "look"
    /\ \A j \in (i + 1)..Len(readLog) : readLog[j].thread # readLog[i].thread

\* the texts of the lines read from position i on, those looked at, in the
\* order they were read
RECURSIVE TextsRead(_)
TextsRead(i) ==
    IF i > Len(readLog) THEN << >>
    ELSE IF Unlooked(i) \/ ToastTextOf(readLog[i].line) = NoText THEN TextsRead(i + 1)
    ELSE <<ToastTextOf(readLog[i].line)>> \o TextsRead(i + 1)

\* C21: the texts put on the queue are, in the order the lines were read and
\* each once, the non-empty texts of the lines read that hold both markers;
\* no other line puts anything.
C21_PutsFollowReads ==
    [i \in 1..Len(putLog) |-> putLog[i].text] = TextsRead(1)

----------------------------------------------------------------------------
(* The life of a listener thread: properties *)

\* the main flow makes the first step of a start call
StartCalled == pcMain = "idle" /\ lastMain'.op = "start" /\ lastMain' # lastMain

\* what every step does to the threads: a thread ends from the end of the loop,
\* which it reaches from a loop test that saw the flag cleared, or from the
\* outer handler, which leaves the flag cleared; a thread begins in start
\* only, as one that has not run before; and start on a cleared flag goes on
\* to create one
C22_Step ==
    /\ \A t \in Threads :
           /\ (Alive(t) /\ ~Alive(t)') => lpc[t] \in {"exit", "except"}
           /\ (lpc[t] # "exit" /\ lpc'[t] = "exit") =>
                  lpc[t] = "check" /\ ~is_monitoring_toast
           /\ (lpc[t] = "except" /\ lpc'[t] = "dead") => ~is_monitoring_toast'
           /\ (~Alive(t) /\ Alive(t)') =>
                  /\ lpc[t] = "unborn"
                  /\ pcMain = "start_spawn" /\ toast_monitor_thread' = t
    /\ (StartCalled /\ ~is_monitoring_toast) => pcMain' = "start_spawn"
    /\ (pcMain = "start_spawn" /\ pcMain' # pcMain) =>
           \E t \in Threads : lpc[t] = "unborn" /\ Alive(t)'

\* C22: a listener thread ends only after its loop test saw Stopped or after
\* an exception reached the outer handler; when it ends by the exception the
\* monitor is Stopped, and a listener thread begins only in a later start(),
\* which creates a new one.
C22_ListenerEndsAndRecovers == [][C22_Step]_vars

\* the first listener ended by a failed Popen with no stop called, and a later
\* start() has created the second one
C22_Witness ==
    /\ stops = 0 /\ lpc[1] = "dead"
    /\ lastMain.op = "start" /\ lastMain.thread = 2 /\ pcMain = "idle"
    /\ Alive(2) /\ is_monitoring_toast

====
